---- MODULE Spec2Model ----
(***************************************************************************)
(* Model of the campaign dispatch pipeline of src/app.py: the intake       *)
(* handler create_campaign, the Celery task process_campaign_task, the     *)
(* delete_campaign handler, the committed database tables Campaign and     *)
(* CampaignError, the upload folder, and the helper clean_twilio_error.    *)
(*                                                                         *)
(* Database visibility.  `campaign` and `campaign_error` hold COMMITTED    *)
(* rows, the only thing get_campaigns / get_campaign_errors can read.      *)
(* What a handler or task has changed in its SQLAlchemy session but not    *)
(* yet committed lives in its own local state (task[c], delete_req[c]).    *)
(* db.session.add() (line 161) only makes a row pending; it reaches the    *)
(* table at the db.session.commit() of line 176, in the same transaction   *)
(* as the UPDATE of the campaign row.                                      *)
(*                                                                         *)
(* Steps.  The task is a sequence of steps (begin, read the file, one per  *)
(* recipient, finish) that requests interleave with; delete_campaign is    *)
(* two steps, the load of line 432 and the commit of line 433.             *)
(***************************************************************************)
EXTENDS Integers, Sequences, FiniteSets, TLC

\* ------------------------------------------------------------------ bounds
MaxCampaigns == 1   \* campaigns ever created (ids 1..MaxCampaigns)
MaxRows == 2        \* rows uploaded, over all the recipient files
MaxSegs == 4        \* segments concatenated into a provider error string
MaxPasses == 2      \* successive applications of clean_twilio_error

VARIABLES
  campaign,        \* committed Campaign rows, by id (NoRow when absent)
  campaign_error,  \* committed CampaignError rows, by campaign_id
  uploads,         \* uploads/campaign_<id>.csv, parsed rows (NoFile when absent)
  next_id,         \* next primary key handed out for Campaign
  task,            \* process_campaign_task: arguments, locals, position
  sent,            \* twilio_client.messages.create calls made, in order
  delete_req,      \* delete_campaign request in flight, per campaign
  written,         \* what create_campaign wrote to the file, by id (history)
  response,        \* last create_campaign request and its answer
  passes           \* a provider error string and its successive cleanings

vars == <<campaign, campaign_error, uploads, next_id, task, sent,
          delete_req, written, response, passes>>

pipeline_vars == <<campaign, campaign_error, uploads, next_id, task, sent,
                   delete_req, written, response>>

Ids == 1..MaxCampaigns


\* ---------------------------------------------------------------- statuses
Queued == "En Cola"
Processing == "Procesando"
Sent == "Enviada"
SentWithErrors == "Enviada con Errores"
ScheduledWithErrors == "Programada con Errores"
Scheduled == "Programada"
SchedulingError == "Error en Programación"

TerminalStatuses ==
  {Sent, SentWithErrors, ScheduledWithErrors, Scheduled, SchedulingError}

\* ------------------------------------------------------------------ inputs
\* Rows as csv.reader yields them: lists of fields.  One row of every shape
\* the filter of line 130 distinguishes.
RowValues ==
  { <<"p1", "ana">>, <<"p2", "bo", "x">>, <<"p3">>, <<"", "cy">>, <<"p4", "">> }

RECURSIVE SeqsUpTo(_, _)
SeqsUpTo(S, n) ==
  IF n = 0 THEN {<<>>}
  ELSE LET shorter == SeqsUpTo(S, n - 1)
       IN shorter \cup {Append(f, r) : f \in {g \in shorter : Len(g) = n - 1}, r \in S}

Files == SeqsUpTo(RowValues, MaxRows)

\* request.files.get('csvFile'): no part at all, bytes that are not UTF-8,
\* or a decodable file.
Uploads ==
  {[kind |-> "missing", rows |-> <<>>], [kind |-> "malformed", rows |-> <<>>]}
  \cup {[kind |-> "file", rows |-> f] : f \in Files}

\* templateId: one the provider can fetch and one it cannot.
TemplateIds == {"HXok", "HXbad"}
\* scheduleType: the two documented modes and any other form value.
ScheduleTypes == {"now", "later", "other"}
\* scheduledAt: absent or empty, an ISO time, text fromisoformat rejects.
ScheduledAts == {"", "2026-01-01T10:00:00Z", "bad"}

Requests ==
  [logged_in : BOOLEAN, templateId : TemplateIds, scheduleType : ScheduleTypes,
   scheduledAt : ScheduledAts, csvFile : Uploads]

\* The provider's answer to one messages.create call: accepted, or an
\* exception whose text is a sequence of characters.
ESC == "ESC"
ProviderError == <<ESC, "[", "3", "1", "m", "H", "T", "T", "P", " ", "4", "0", "0">>

\* ------------------------------------------------------------------- state
NoRow == [status |-> "absent"]
NoFile == [exists |-> FALSE, rows |-> <<>>]
NoTask ==
  [pc |-> "none", template_sid |-> "", schedule_type |-> "",
   scheduled_at_str |-> "", recipients |-> <<>>, i |-> 1,
   success_count |-> 0, error_count |-> 0, pending |-> <<>>,
   loaded |-> FALSE, send_at |-> ""]
NoDelete == [pc |-> "none", errors |-> 0]

Exists(c) == campaign[c].status # "absent"

\* ------------------------------------------------------ clean_twilio_error
\* Strings are sequences of one-character strings; ESC stands for "\x1B".
Lower ==
  <<"a", "b", "c", "d", "e", "f", "g", "h", "i", "j", "k", "l", "m", "n",
    "o", "p", "q", "r", "s", "t", "u", "v", "w", "x", "y", "z">>
Upper ==
  <<"A", "B", "C", "D", "E", "F", "G", "H", "I", "J", "K", "L", "M", "N",
    "O", "P", "Q", "R", "S", "T", "U", "V", "W", "X", "Y", "Z">>
Digits ==
  <<"0", "1", "2", "3", "4", "5", "6", "7", "8", "9">>

Range(f) == {f[k] : k \in DOMAIN f}
IndexIn(f, ch) == CHOOSE k \in DOMAIN f : f[k] = ch

\* ord() of the characters the model uses.
Code(ch) ==
  IF ch = ESC THEN 27
  ELSE IF ch = " " THEN 32
  ELSE IF ch = ":" THEN 58
  ELSE IF ch = "[" THEN 91
  ELSE IF ch \in Range(Digits) THEN 47 + IndexIn(Digits, ch)
  ELSE IF ch \in Range(Upper) THEN 64 + IndexIn(Upper, ch)
  ELSE 96 + IndexIn(Lower, ch)

\* The character classes of the pattern of line 180.
InFe(ch) == Code(ch) \in (64..90) \cup (92..95)     \* [@-Z\\-_]
InParam(ch) == Code(ch) \in 48..63                   \* [0-?]
InIntermediate(ch) == Code(ch) \in 32..47            \* [ -/]
InFinal(ch) == Code(ch) \in 64..126                  \* [@-~]

\* First position at or after k whose character is outside the class
\* (a greedy X*; the three classes of the CSI branch are pairwise disjoint,
\* so the greedy match is the only one).
RECURSIVE SkipParam(_, _)
SkipParam(str, k) ==
  IF k <= Len(str) /\ InParam(str[k]) THEN SkipParam(str, k + 1) ELSE k

RECURSIVE SkipIntermediate(_, _)
SkipIntermediate(str, k) ==
  IF k <= Len(str) /\ InIntermediate(str[k]) THEN SkipIntermediate(str, k + 1) ELSE k

\* ansi_escape matched at position k: the position after the match, 0 when
\* the pattern does not match there.
MatchEnd(str, k) ==
  IF k + 1 > Len(str) \/ str[k] # ESC THEN 0
  ELSE IF InFe(str[k + 1]) THEN k + 2
  ELSE IF str[k + 1] # "[" THEN 0
  ELSE LET f == SkipIntermediate(str, SkipParam(str, k + 2))
       IN IF f <= Len(str) /\ InFinal(str[f]) THEN f + 1 ELSE 0

Least(S) == CHOOSE k \in S : \A j \in S : k <= j

\* ansi_escape.sub('', str) from position k on: one left-to-right pass that
\* keeps the text up to the leftmost match, drops the match and goes on
\* after it.
RECURSIVE AnsiSub(_, _)
AnsiSub(str, k) ==
  LET matches == {j \in k..Len(str) : MatchEnd(str, j) # 0}
  IN IF matches = {} THEN SubSeq(str, k, Len(str))
     ELSE SubSeq(str, k, Least(matches) - 1)
            \o AnsiSub(str, MatchEnd(str, Least(matches)))

Marker ==
  <<"T", "w", "i", "l", "i", "o", " ", "r", "e", "t", "u", "r", "n", "e",
    "d", " ", "t", "h", "e", " ", "f", "o", "l", "l", "o", "w", "i", "n",
    "g", " ", "i", "n", "f", "o", "r", "m", "a", "t", "i", "o", "n", ":">>
MoreInfo ==
  <<"M", "o", "r", "e", " ", "i", "n", "f", "o", "r", "m", "a", "t", "i",
    "o", "n", " ", "m", "a", "y", " ", "b", "e", " ", "a", "v", "a", "i",
    "l", "a", "b", "l", "e", " ", "h", "e", "r", "e", ":">>

\* First position at or after k where pat occurs in str, 0 when none.
Find(str, pat, k) ==
  LET hits == {j \in k..(Len(str) - Len(pat) + 1) :
                 SubSeq(str, j, j + Len(pat) - 1) = pat}
  IN IF hits = {} THEN 0 ELSE Least(hits)

\* str.split(pat)[1], for a str that contains pat.
SplitSecond(str, pat) ==
  LET from == Find(str, pat, 1) + Len(pat)
      nxt == Find(str, pat, from)
  IN SubSeq(str, from, IF nxt = 0 THEN Len(str) ELSE nxt - 1)

\* str.split(pat)[0].
SplitFirst(str, pat) ==
  LET at == Find(str, pat, 1)
  IN IF at = 0 THEN str ELSE SubSeq(str, 1, at - 1)

\* str.strip(), the only whitespace of the model's alphabet being " ".
RECURSIVE Strip(_)
Strip(str) ==
  IF str = <<>> THEN str
  ELSE IF Head(str) = " " THEN Strip(Tail(str))
  ELSE IF str[Len(str)] = " " THEN Strip(SubSeq(str, 1, Len(str) - 1))
  ELSE str

clean_twilio_error(error_string) ==
  LET clean_string == AnsiSub(error_string, 1)
  IN IF Find(clean_string, Marker, 1) # 0
     THEN Strip(SplitFirst(SplitSecond(clean_string, Marker), MoreInfo))
     ELSE clean_string

\* --------------------------------------------------------- create_campaign
\* content.types[...].get('body'), lines 389-397: the fetch raises for an
\* identifier the provider does not know, the handler prints and goes on
\* with the empty body.
TemplateBody(template_sid) == IF template_sid = "HXok" THEN "body" ELSE ""

\* IntakeStatus without the failure of line 402: a request without a
\* decodable file goes through as an upload of no rows.
IntakeStatus_UploadNotRead(req) ==
  IF ~req.logged_in THEN 403
  ELSE IF req.scheduleType = "later" /\ req.scheduledAt = "bad" THEN 500
  ELSE 202

\* The places where the handler stops before line 408: the session check of
\* line 380, csv_file.stream on None or a failed decode at line 402,
\* fromisoformat at line 406.
IntakeStatus(req) ==
  IF ~req.logged_in THEN 403
  ELSE IF req.csvFile.kind # "file" THEN 500
  ELSE IF req.scheduleType = "later" /\ req.scheduledAt = "bad" THEN 500
  ELSE 202

\* Rows written to the upload folder so far.
RECURSIVE RowsUploaded(_)
RowsUploaded(c) == IF c = 0 THEN 0 ELSE Len(written[c]) + RowsUploaded(c - 1)

NewCampaign(req) ==
  [status |-> Queued, template_body |-> TemplateBody(req.templateId),
   recipient_count |-> Len(req.csvFile.rows),
   success_count |-> 0, error_count |-> 0]

\* The whole handler: it answers 403/500 and leaves everything as it was,
\* or commits the row (417), writes the file (420-421), enqueues the task
\* (423) and answers 202.  The row gets a primary key no campaign had
\* before.  The three writes are one step: the task cannot start before
\* line 423, and a client learns the id from the answer.
CreateCampaign(req) ==
  /\ response' = [logged_in |-> req.logged_in, templateId |-> req.templateId,
                   upload |-> req.csvFile.kind, code |-> IntakeStatus(req)]
  /\ IF IntakeStatus(req) # 202
     THEN UNCHANGED <<campaign, uploads, next_id, task, written>>
     ELSE /\ next_id <= MaxCampaigns
          /\ RowsUploaded(MaxCampaigns) + Len(req.csvFile.rows) <= MaxRows
          /\ campaign' = [campaign EXCEPT ![next_id] = NewCampaign(req)]
          /\ uploads' = [uploads EXCEPT ![next_id] =
                           [exists |-> TRUE, rows |-> req.csvFile.rows]]
          /\ written' = [written EXCEPT ![next_id] = req.csvFile.rows]
          /\ task' = [task EXCEPT ![next_id] =
                        [NoTask EXCEPT !.pc = "queued",
                                       !.template_sid = req.templateId,
                                       !.schedule_type = req.scheduleType,
                                       !.scheduled_at_str = req.scheduledAt]]
          /\ next_id' = next_id + 1
  /\ UNCHANGED <<campaign_error, sent, delete_req, passes>>

\* --------------------------------------------------- process_campaign_task
\* TaskBegin without the commit of line 124: 'Procesando' stays in the
\* session and readers keep seeing 'En Cola'.
TaskBegin_NoCommit(c) ==
  /\ task[c].pc = "queued"
  /\ IF Exists(c)
     THEN task' = [task EXCEPT ![c].pc = "read", ![c].loaded = TRUE]
     ELSE task' = [task EXCEPT ![c].pc = "returned"]
  /\ UNCHANGED <<campaign, campaign_error, uploads, next_id, sent, delete_req,
                 written, response, passes>>

\* Lines 118-124.  No row: the task prints and returns.  Otherwise the
\* status 'Procesando' is committed; the commit expires the loaded instance.
TaskBegin(c) ==
  /\ task[c].pc = "queued"
  /\ IF Exists(c)
     THEN /\ campaign' = [campaign EXCEPT ![c].status = Processing]
          /\ task' = [task EXCEPT ![c].pc = "read", ![c].loaded = FALSE]
     ELSE /\ task' = [task EXCEPT ![c].pc = "returned"]
          /\ UNCHANGED campaign
  /\ UNCHANGED <<campaign_error, uploads, next_id, sent, delete_req, written,
                 response, passes>>

\* The filter of line 130 without its last test.
ValidRow_NameNotTested(row) == Len(row) >= 2 /\ row[1] # ""

\* The filter of line 130.
ValidRow(row) == Len(row) >= 2 /\ row[1] # "" /\ row[2] # ""

\* Lines 129-131: the accepted rows, in file order.
RECURSIVE ParseRecipients(_)
ParseRecipients(rows) ==
  IF rows = <<>> THEN <<>>
  ELSE (IF ValidRow(Head(rows))
        THEN <<[phone |-> Head(rows)[1], name |-> Head(rows)[2]]>>
        ELSE <<>>) \o ParseRecipients(Tail(rows))

\* Lines 144-147: the send time the requests will carry ("" for none).
SendAt(schedule_type, scheduled_at_str) ==
  IF schedule_type = "later" /\ scheduled_at_str # "" THEN scheduled_at_str ELSE ""

\* Lines 126-147.  open() raises when the file is not there and the task
\* ends on the exception, nothing after line 127 being run.  Otherwise the rows are
\* read, the file is removed and the send options are built (fromisoformat
\* raising on text it cannot parse).
TaskReadFile(c) ==
  /\ task[c].pc = "read"
  /\ IF ~uploads[c].exists
     THEN /\ task' = [task EXCEPT ![c].pc = "failed_open"]
          /\ UNCHANGED uploads
     ELSE /\ uploads' = [uploads EXCEPT ![c] = NoFile]
          /\ IF task[c].schedule_type = "later" /\ task[c].scheduled_at_str = "bad"
             THEN task' = [task EXCEPT ![c].pc = "failed_parse"]
             ELSE task' = [task EXCEPT
                    ![c].pc = "send",
                    ![c].recipients = ParseRecipients(uploads[c].rows),
                    ![c].send_at = SendAt(task[c].schedule_type,
                                          task[c].scheduled_at_str)]
  /\ UNCHANGED <<campaign, campaign_error, next_id, sent, delete_req, written,
                 response, passes>>

\* campaign.id at line 160.  The commit of line 124 expired the instance, so
\* the first read of an attribute reloads the row and raises when the row is
\* gone; once reloaded the value is served from the session.
CanReadCampaignId(c) == task[c].loaded \/ Exists(c)

\* One iteration of the loop of lines 149-161, for recipient task[c].i; ok
\* is the provider's answer.  An exception raised inside the except block
\* ends the task.
TaskSend(c, ok) ==
  /\ task[c].pc = "send"
  /\ task[c].i <= Len(task[c].recipients)
  /\ LET recipient == task[c].recipients[task[c].i]
     IN /\ sent' = [sent EXCEPT ![c] = Append(@,
                      [to |-> recipient.phone, name |-> recipient.name,
                       content_sid |-> task[c].template_sid,
                       send_at |-> task[c].send_at, ok |-> ok])]
        /\ IF ok
           THEN task' = [task EXCEPT ![c].success_count = @ + 1, ![c].i = @ + 1]
           ELSE IF CanReadCampaignId(c)
           THEN task' = [task EXCEPT
                  ![c].error_count = @ + 1,
                  ![c].loaded = TRUE,
                  ![c].pending = Append(@,
                     [recipient_phone |-> recipient.phone,
                      error_message |-> clean_twilio_error(ProviderError)]),
                  ![c].i = @ + 1]
           ELSE task' = [task EXCEPT ![c].error_count = @ + 1,
                                     ![c].pc = "failed_load"]
  /\ UNCHANGED <<campaign, campaign_error, uploads, next_id, delete_req,
                 written, response, passes>>

\* Lines 166-174 with the tests of the else branch in the wrong order: any
\* success makes a scheduled run 'Programada'.
TerminalStatus_AnySuccess(schedule_type, success_count, error_count) ==
  IF schedule_type = "now"
  THEN (IF error_count = 0 THEN Sent ELSE SentWithErrors)
  ELSE IF success_count > 0 THEN Scheduled
  ELSE SchedulingError

\* Lines 166-174.
TerminalStatus(schedule_type, success_count, error_count) ==
  IF schedule_type = "now"
  THEN (IF error_count = 0 THEN Sent ELSE SentWithErrors)
  ELSE IF success_count > 0 /\ error_count > 0 THEN ScheduledWithErrors
  ELSE IF success_count > 0 /\ error_count = 0 THEN Scheduled
  ELSE SchedulingError

\* The flush of line 176 can write: the UPDATE of the campaign row must
\* match one row, otherwise the commit raises and the transaction, pending
\* CampaignError rows included, is rolled back.
CommitApplies(c) == Exists(c)

\* Lines 163-176 with the CampaignError rows left out of the commit that
\* publishes counts and status.
TaskFinish_ErrorsNotFlushed(c) ==
  /\ task[c].pc = "send"
  /\ task[c].i > Len(task[c].recipients)
  /\ IF CommitApplies(c)
     THEN /\ campaign' = [campaign EXCEPT
               ![c].success_count = task[c].success_count,
               ![c].error_count = task[c].error_count,
               ![c].status = TerminalStatus(task[c].schedule_type,
                               task[c].success_count, task[c].error_count)]
          /\ task' = [task EXCEPT ![c].pc = "done"]
     ELSE /\ task' = [task EXCEPT ![c].pc = "failed_commit"]
          /\ UNCHANGED campaign
  /\ UNCHANGED <<campaign_error, uploads, next_id, sent, delete_req, written,
                 response, passes>>

\* Lines 163-176, after the last recipient: counts, status and the pending
\* CampaignError rows are committed in one transaction.
TaskFinish(c) ==
  /\ task[c].pc = "send"
  /\ task[c].i > Len(task[c].recipients)
  /\ IF CommitApplies(c)
     THEN /\ campaign' = [campaign EXCEPT
               ![c].success_count = task[c].success_count,
               ![c].error_count = task[c].error_count,
               ![c].status = TerminalStatus(task[c].schedule_type,
                               task[c].success_count, task[c].error_count)]
          /\ campaign_error' = [campaign_error EXCEPT ![c] = @ \o task[c].pending]
          /\ task' = [task EXCEPT ![c].pc = "done"]
     ELSE /\ task' = [task EXCEPT ![c].pc = "failed_commit"]
          /\ UNCHANGED <<campaign, campaign_error>>
  /\ UNCHANGED <<uploads, next_id, sent, delete_req, written, response, passes>>

\* --------------------------------------------------------- delete_campaign
\* Lines 431-432: the row is found (404 otherwise) and db.session.delete
\* loads campaign.errors, the rows the cascade of line 96 will delete.
DeleteLoad(c) ==
  /\ delete_req[c].pc = "none"
  /\ Exists(c)
  /\ delete_req' = [delete_req EXCEPT ![c] =
                      [pc |-> "loaded", errors |-> Len(campaign_error[c])]]
  /\ UNCHANGED <<campaign, campaign_error, uploads, next_id, task, sent,
                 written, response, passes>>

\* The rows of a campaign left once the loaded ones are deleted
\* (CampaignError rows are only ever appended).
WithoutLoaded(rows, loaded) == SubSeq(rows, loaded + 1, Len(rows))

\* Line 433: the loaded CampaignError rows and the campaign row are deleted
\* and the transaction commits.  The cascade is the ORM's (line 96); the
\* foreign key of line 108 has no ON DELETE and the default database of
\* line 25 does not enforce it, so rows committed after line 432 stay.
DeleteCommit(c) ==
  /\ delete_req[c].pc = "loaded"
  /\ campaign' = [campaign EXCEPT ![c] = NoRow]
  /\ campaign_error' = [campaign_error EXCEPT
                          ![c] = WithoutLoaded(@, delete_req[c].errors)]
  /\ delete_req' = [delete_req EXCEPT ![c].pc = "done"]
  /\ UNCHANGED <<uploads, next_id, task, sent, written, response, passes>>

\* ------------------------------------------------------------- environment
\* The file of a queued campaign is not there when the worker opens it (the
\* upload folder is a relative path of the web process; nothing in the
\* program keeps the file in place until the task runs).
FileLost(c) ==
  /\ uploads[c].exists
  /\ uploads' = [uploads EXCEPT ![c] = NoFile]
  /\ UNCHANGED <<campaign, campaign_error, next_id, task, sent, delete_req,
                 written, response, passes>>

\* ----------------------------------------------------------- specification
NoResponse == [logged_in |-> FALSE, templateId |-> "", upload |-> "", code |-> 0]

Init ==
  /\ campaign = [c \in Ids |-> NoRow]
  /\ campaign_error = [c \in Ids |-> <<>>]
  /\ uploads = [c \in Ids |-> NoFile]
  /\ next_id = 1
  /\ task = [c \in Ids |-> NoTask]
  /\ sent = [c \in Ids |-> <<>>]
  /\ delete_req = [c \in Ids |-> NoDelete]
  /\ written = [c \in Ids |-> <<>>]
  /\ response = NoResponse
  /\ passes = <<>>

\* The (scheduleType, scheduledAt) pairs the form sends: send now, send
\* later with a time, send later with the time left empty.
ScheduleInputs ==
  { <<"now", "">>, <<"later", "2026-01-01T10:00:00Z">>, <<"later", "">> }

\* The requests of a signed-in user that pass intake, with a template the
\* provider knows.
PipelineRequests ==
  {req \in Requests : /\ IntakeStatus(req) = 202
                      /\ req.templateId = "HXok"
                      /\ <<req.scheduleType, req.scheduledAt>> \in ScheduleInputs}

Next ==
  \/ next_id <= MaxCampaigns /\ \E req \in PipelineRequests : CreateCampaign(req)
  \/ \E c \in Ids : TaskBegin(c)
  \/ \E c \in Ids : TaskReadFile(c)
  \/ \E c \in Ids, ok \in BOOLEAN : TaskSend(c, ok)
  \/ \E c \in Ids : TaskFinish(c)
  \/ \E c \in Ids : DeleteLoad(c)
  \/ \E c \in Ids : DeleteCommit(c)
  \/ \E c \in Ids : FileLost(c)

Spec == Init /\ [][Next]_vars

\* ------------------------------------------------- intake on its own
\* The requests create_campaign can receive, accepted or not.  The handler
\* only counts the lines of a decodable file (line 404), so one file of each
\* length stands for the files of that length; of the schedule it only
\* parses the time of a 'later' request (line 406).
IntakeRequests ==
  {req \in Requests :
     /\ \A k \in DOMAIN req.csvFile.rows : req.csvFile.rows[k] = <<"p1", "ana">>
     /\ <<req.scheduleType, req.scheduledAt>> \in
          { <<"now", "">>, <<"later", "2026-01-01T10:00:00Z">>,
            <<"later", "bad">>, <<"other", "">> }}

NextIntake == \E req \in IntakeRequests : CreateCampaign(req)

SpecIntake == Init /\ [][NextIntake]_vars

\* ------------------------------------------- clean_twilio_error on its own
\* Provider error strings: up to MaxSegs pieces, each an escape character,
\* a character of one of the classes of the pattern, or one of the two
\* marker texts.
Segments ==
  { <<ESC>>, <<"[">>, <<"0">>, <<" ">>, <<"m">>, <<"A">>, Marker, MoreInfo }

RECURSIVE StringsUpTo(_)
StringsUpTo(n) ==
  IF n = 0 THEN {<<>>}
  ELSE {str \o seg : str \in StringsUpTo(n - 1), seg \in Segments \cup {<<>>}}

ErrorStrings == StringsUpTo(MaxSegs)

InitClean ==
  /\ campaign = [c \in Ids |-> NoRow]
  /\ campaign_error = [c \in Ids |-> <<>>]
  /\ uploads = [c \in Ids |-> NoFile]
  /\ next_id = 1
  /\ task = [c \in Ids |-> NoTask]
  /\ sent = [c \in Ids |-> <<>>]
  /\ delete_req = [c \in Ids |-> NoDelete]
  /\ written = [c \in Ids |-> <<>>]
  /\ response = NoResponse
  /\ passes \in {<<str>> : str \in ErrorStrings}

\* The cleaner applied to its own last result.
CleanAgain ==
  /\ Len(passes) <= MaxPasses
  /\ passes' = Append(passes, clean_twilio_error(passes[Len(passes)]))
  /\ UNCHANGED pipeline_vars

NextClean == CleanAgain

SpecClean == InitClean /\ [][NextClean]_vars

\* ================================================================== claims
\* The ways process_campaign_task ends.
TaskEnded(c) ==
  task[c].pc \in {"returned", "failed_open", "failed_parse", "failed_load",
                  "failed_commit", "done"}

\* The file of c was read by the task.
FileRead(c) == task[c].pc \in {"send", "failed_load", "failed_commit", "done"}

\* C1: when the task cannot open the recipient file, no send is attempted,
\* the counts stay as intake set them, and the campaign is left in a status
\* of its own: not 'En Cola', not 'Procesando', not a terminal status.
C1_MissingFileMarked ==
  \A c \in Ids :
    task[c].pc = "failed_open" =>
      /\ sent[c] = <<>>
      /\ Exists(c) =>
           /\ campaign[c].status \notin {Queued, Processing} \cup TerminalStatuses
           /\ campaign[c].success_count = 0
           /\ campaign[c].error_count = 0

\* C2: a run that reached the end of the send loop leaves the status the
\* table gives for (schedule_type, success_count, error_count), and never a
\* status outside the five of the table.
C2_StatusTable ==
  \A c \in Ids :
    (task[c].pc = "done" /\ Exists(c)) =>
      LET mode == task[c].schedule_type
          ok == campaign[c].success_count
          bad == campaign[c].error_count
          status == campaign[c].status
      IN /\ status \in TerminalStatuses
         /\ (mode = "now" /\ bad = 0) => status = "Enviada"
         /\ (mode = "now" /\ bad > 0) => status = "Enviada con Errores"
         /\ (mode = "later" /\ ok > 0 /\ bad > 0) => status = "Programada con Errores"
         /\ (mode = "later" /\ ok > 0 /\ bad = 0) => status = "Programada"
         /\ (mode = "later" /\ ok = 0) => status = "Error en Programación"

\* C2 witness: a scheduled run with one accepted and one refused send ended.
C2_Witness ==
  \E c \in Ids :
    /\ task[c].pc = "done" /\ Exists(c)
    /\ task[c].schedule_type = "later"
    /\ campaign[c].success_count > 0 /\ campaign[c].error_count > 0

\* Rows with at least two fields whose first two fields are not empty.
CountedRows(rows) ==
  Cardinality({k \in DOMAIN rows :
                 Len(rows[k]) >= 2 /\ rows[k][1] # "" /\ rows[k][2] # ""})

\* C3: after a completed run the persisted success_count + error_count is
\* the number of rows of the file with two non-empty leading fields, and
\* that is also the number of sends: the other rows are counted nowhere and
\* sent nothing.
C3_CountsMatchRows ==
  \A c \in Ids :
    (task[c].pc = "done" /\ Exists(c)) =>
      /\ campaign[c].success_count + campaign[c].error_count
           = CountedRows(written[c])
      /\ Len(sent[c]) = CountedRows(written[c])

\* C3 witness: a completed run over a file of a good row and a row with an
\* empty second field.
C3_Witness ==
  \E c \in Ids :
    /\ task[c].pc = "done" /\ Exists(c)
    /\ Len(written[c]) = 2
    /\ CountedRows(written[c]) = 1
    /\ \E k \in 1..2 : Len(written[c][k]) = 2 /\ written[c][k][2] = ""

\* C4: what a reader can see.  A terminal status comes with the final counts
\* of the run and with as many CampaignError rows as error_count; before
\* the terminal status the counts are still the zeros of intake.
C4_AtomicPublish ==
  \A c \in Ids :
    Exists(c) =>
      IF campaign[c].status \in TerminalStatuses
      THEN /\ task[c].pc = "done"
           /\ campaign[c].success_count = task[c].success_count
           /\ campaign[c].error_count = task[c].error_count
           /\ Len(campaign_error[c]) = campaign[c].error_count
      ELSE /\ campaign[c].success_count = 0
           /\ campaign[c].error_count = 0

\* C4 witness: a terminal status is visible for a run with a refused send.
C4_Witness ==
  \E c \in Ids :
    /\ Exists(c)
    /\ campaign[c].status \in TerminalStatuses
    /\ campaign[c].error_count > 0
    /\ Len(campaign_error[c]) = campaign[c].error_count

\* C5: once the task of a campaign has ended, however it ended, the file
\* intake wrote for it is not on disk; and no send is made while the file
\* is still there.
C5_FileGone ==
  \A c \in Ids :
    /\ TaskEnded(c) => ~uploads[c].exists
    /\ sent[c] # <<>> => ~uploads[c].exists

\* A request the claim calls an intake error.
UploadError(r) == r.upload \in {"missing", "malformed"}
TemplateError(r) == r.templateId = "HXbad"
StoreUntouched == UNCHANGED <<campaign, uploads, task, next_id, written>>

\* C6: a request with a missing or undecodable upload, or with a template
\* identifier the provider cannot fetch, is refused and leaves no Campaign
\* row, no file and no queued task.
C6_IntakeErrorsRejected ==
  [][(UploadError(response') \/ TemplateError(response'))
       => (response'.code # 202 /\ StoreUntouched)]_vars

\* C6 amended: a request with a missing or undecodable upload is refused
\* and leaves no Campaign row, no file and no queued task.
C6_UploadErrorsRejected ==
  [][UploadError(response') => (response'.code # 202 /\ StoreUntouched)]_vars

\* C6 witness: a signed-in request without a decodable file was answered 500
\* after a campaign had been accepted.
C6_Witness ==
  /\ UploadError(response) /\ response.logged_in /\ response.code = 500
  /\ next_id > 1

\* C7: in a run that read its file the sends made so far are the first
\* recipients of the parsed list, one each and in file order, and a run that
\* has ended has attempted every recipient.
C7_EveryRecipientAttempted ==
  \A c \in Ids :
    FileRead(c) =>
      /\ Len(sent[c]) <= Len(task[c].recipients)
      /\ \A k \in DOMAIN sent[c] :
           /\ sent[c][k].to = task[c].recipients[k].phone
           /\ sent[c][k].name = task[c].recipients[k].name
      /\ task[c].pc # "send" => Len(sent[c]) = Len(task[c].recipients)

\* The order of the statuses a reader may see.
StatusRank(status) ==
  IF status = Queued THEN 0 ELSE IF status = Processing THEN 1 ELSE 2

C9_DeleteCascades ==
  /\ [](\A c \in Ids : ~Exists(c) => campaign_error[c] = <<>>)
  /\ [][\A c \in Ids :
          (Exists(c) /\ ~Exists(c)') =>
             /\ campaign_error[c]' = <<>>
             /\ \A d \in Ids \ {c} :
                  /\ campaign[d]' = campaign[d]
                  /\ campaign_error[d]' = campaign_error[d]]_vars

\* C10: cleaning a cleaned message changes nothing.
C10_CleanIdempotent ==
  Len(passes) >= 3 => passes[3] = passes[2]

\* C11: in a run of mode later every send request carries the scheduled send
\* time and in a run of mode now none does; so every accepted send of a
\* campaign that ended Scheduled or Scheduled with errors carried the time,
\* whatever scheduled time intake passed through (the empty one included).
C11_ScheduledSendsCarryTime ==
  \A c \in Ids :
    /\ \A k \in 1..Len(sent[c]) :
         /\ task[c].schedule_type = "later" => sent[c][k].send_at # ""
         /\ task[c].schedule_type = "now" => sent[c][k].send_at = ""
    /\ (Exists(c) /\ campaign[c].status \in {Scheduled, ScheduledWithErrors})
         => \A k \in 1..Len(sent[c]) :
              sent[c][k].ok => sent[c][k].send_at # ""

====
